---- MODULE Spec2Model ----
(***************************************************************************)
(* Model of src/stats.py: the per-domain intersection of solved problems   *)
(* over the requested experiment configurations, the per-experiment        *)
(* averages over that intersection and the trailing Total row.             *)
(*                                                                         *)
(* A numeric value that may be NaN is an option set: {} is NaN, {v} is the *)
(* number v.  Averages are exact rationals [num, den] in lowest terms.     *)
(* The input table has the columns domain_name, experiment_name,           *)
(* problem_name, solution_size, expanded_nodes, search_elapsed_time and no *)
(* heuristic_name column; solution_size and expanded_nodes hold the text   *)
(* of the cell (a sequence of characters), search_elapsed_time a number.   *)
(* The model starts where main() holds the list of requested names (after  *)
(* the bracket syntax of lines 32-37) and the table read by line 41, which *)
(* has an experiment_name column (lines 47-49).                            *)
(***************************************************************************)
EXTENDS Integers, Sequences, FiniteSets, TLC

(***************************************************************************)
(* Bounds and input alphabets.                                             *)
(***************************************************************************)
MaxRows == 3
MaxCellRows == 2
MaxArgs == 2

\* The benchmark of the model: domain D1 has the problems p1 and p2, domain D2
\* the problem p1; the table holds runs of the experiments E1 and E2, and E3 is
\* a name that can be requested but never occurs in a table.
DomainNames == {"D1", "D2"}
TableExperiments == {"E1", "E2"}
RequestNames == {"E1", "E2", "E3"}
ProblemsOf(d) == IF d = "D1" THEN {"p1", "p2"} ELSE {"p1"}

\* Every name of the model in ascending order of Python's string comparison.
Lexicographic == <<"D1", "D2", "E1", "E2", "E3", "p1", "p2">>

\* The cells of a run: a run that found a plan logs the plan's metrics, which
\* differ between the problems; a run that found none logs size 0, one node.
Metrics(p, found) ==
    IF ~found
    THEN [solution_size |-> <<"0">>, expanded_nodes |-> <<"1">>, search_elapsed_time |-> 5]
    ELSE IF p = "p1"
    THEN [solution_size |-> <<"1">>, expanded_nodes |-> <<"2">>, search_elapsed_time |-> 1]
    ELSE [solution_size |-> <<"3">>, expanded_nodes |-> <<"4">>, search_elapsed_time |-> 2]

Run(d, e, p, m) ==
    [domain_name |-> d, experiment_name |-> e, problem_name |-> p,
     solution_size |-> m.solution_size, expanded_nodes |-> m.expanded_nodes,
     search_elapsed_time |-> m.search_elapsed_time]

Records ==
    UNION { { Run(d, e, p, Metrics(p, found)) :
                e \in TableExperiments, p \in ProblemsOf(d), found \in BOOLEAN } :
            d \in DomainNames }

SizeCells == { <<"a", "b", "c">>, <<>>, <<"-", "1">>, <<"0">>, <<"2">> }
NodeCells == { <<"a", "b", "c">>, <<>>, <<"1">>, <<"2">>, <<"1", "0">> }

CellRecords ==
    { Run("D1", "E1", "p1",
          [solution_size |-> s, expanded_nodes |-> n, search_elapsed_time |-> 1]) :
        s \in SizeCells, n \in NodeCells }

SeqsUpTo(S, n) == UNION { [1..k -> S] : k \in 0..n }

(***************************************************************************)
(* Sequences and sets.                                                     *)
(***************************************************************************)
Range(s) == { s[i] : i \in DOMAIN s }

\* Mutant of unique: the distinct values in ascending order.
unique_ascending(s) ==
    SelectSeq(Lexicographic, LAMBDA n : \E i \in DOMAIN s : s[i] = n)

\* pandas Series.unique(): the distinct values in order of first appearance.
RECURSIVE unique(_)
unique(s) ==
    IF s = <<>> THEN <<>>
    ELSE LET front == unique(SubSeq(s, 1, Len(s) - 1))
             last == s[Len(s)]
         IN IF last \in Range(front) THEN front ELSE Append(front, last)

Column(rows, col) == [i \in DOMAIN rows |-> rows[i][col]]

\* Mutant of sorted: the names in descending order.
RECURSIVE Reverse(_)
Reverse(s) == IF s = <<>> THEN <<>> ELSE Append(Reverse(Tail(s)), s[1])
sorted_descending(S) == Reverse(SelectSeq(Lexicographic, LAMBDA n : n \in S))

\* Python sorted() of a set of strings.
sorted(S) == SelectSeq(Lexicographic, LAMBDA n : n \in S)

\* Mutant of intersection: the union of the sets.
RECURSIVE intersection_union(_)
intersection_union(sets) ==
    IF Len(sets) = 1 THEN sets[1]
    ELSE sets[1] \cup intersection_union(Tail(sets))

\* set.intersection(*problem_sets) of a non-empty list of sets.
RECURSIVE intersection(_)
intersection(sets) ==
    IF Len(sets) = 1 THEN sets[1]
    ELSE sets[1] \cap intersection(Tail(sets))

(***************************************************************************)
(* Numbers: pd.to_numeric(errors="coerce"), comparisons with NaN, means.   *)
(***************************************************************************)
DigitChars == <<"0", "1", "2", "3", "4", "5", "6", "7", "8", "9">>
IsDigit(c) == \E i \in DOMAIN DigitChars : DigitChars[i] = c
DigitValue(c) == (CHOOSE i \in DOMAIN DigitChars : DigitChars[i] = c) - 1

RECURSIVE ParseDigits(_)
ParseDigits(cs) ==
    IF cs = <<>> THEN 0
    ELSE 10 * ParseDigits(SubSeq(cs, 1, Len(cs) - 1)) + DigitValue(cs[Len(cs)])

\* The text of a cell as a number, NaN ({}) when it does not parse.
to_numeric(cell) ==
    LET neg == cell # <<>> /\ cell[1] = "-"
        digits == IF neg THEN Tail(cell) ELSE cell
    IN IF digits # <<>> /\ \A i \in DOMAIN digits : IsDigit(digits[i])
       THEN { IF neg THEN 0 - ParseDigits(digits) ELSE ParseDigits(digits) }
       ELSE {}

\* x > n for a possibly-NaN x: every comparison with NaN is False.
Gt(x, n) == \E v \in x : v > n

RECURSIVE Gcd(_, _)
Gcd(a, b) == IF b = 0 THEN a ELSE Gcd(b, a % b)
Abs(a) == IF a < 0 THEN 0 - a ELSE a

Rat(n, d) == LET g == Gcd(Abs(n), d) IN [num |-> n \div g, den |-> d \div g]
RatAdd(a, b) == Rat(a.num * b.den + b.num * a.den, a.den * b.den)

RECURSIVE RatSum(_)
RatSum(vals) ==
    IF vals = <<>> THEN Rat(0, 1) ELSE RatAdd(vals[1], RatSum(Tail(vals)))

\* Series.mean() of rationals that may be NaN: NaN values are skipped, and the
\* mean of no value is NaN.
mean(vals) ==
    LET present == SelectSeq(vals, LAMBDA v : v # {})
        nums == [i \in DOMAIN present |-> CHOOSE r \in present[i] : TRUE]
        total == RatSum(nums)
    IN IF present = <<>> THEN {}
       ELSE { Rat(total.num, total.den * Len(present)) }

AsRat(x) == { Rat(v, 1) : v \in x }

(***************************************************************************)
(* State.                                                                  *)
(***************************************************************************)
VARIABLES
    table,            \* the DataFrame read from the input CSV
    experiments,      \* the requested experiment names, in order
    pc,               \* position in main()
    df,               \* the rows of the requested experiments
    domains,          \* df["domain_name"].unique()
    di,               \* index into domains of the domain being processed
    ei,               \* index into experiments inside either inner loop
    problem_sets,     \* solved problem names per requested experiment
    common_problems,  \* intersection of problem_sets
    aggregated_rows,  \* rows appended so far
    agg_df,           \* the result table
    stdout,           \* lines printed
    output,           \* rows of the output CSV, <<>> while it is not written
    written,          \* whether to_csv has run
    exit_code         \* {} while running, {c} once the process ended with c

vars == <<table, experiments, pc, df, domains, di, ei, problem_sets,
          common_problems, aggregated_rows, agg_df, stdout, output, written,
          exit_code>>

Line(text, names) == [text |-> text, names |-> names]

\* main() has read its arguments and the input file.
Started ==
    /\ pc = "check_experiments"
    /\ df = <<>>
    /\ domains = <<>>
    /\ di = 0
    /\ ei = 0
    /\ problem_sets = <<>>
    /\ common_problems = {}
    /\ aggregated_rows = <<>>
    /\ agg_df = <<>>
    /\ stdout = <<>>
    /\ output = <<>>
    /\ written = FALSE
    /\ exit_code = {}

Init ==
    /\ table \in SeqsUpTo(Records, MaxRows)
    /\ experiments \in SeqsUpTo(RequestNames, MaxArgs)
    /\ Started

\* Tables of one domain, experiment and problem whose two coerced cells range
\* over text, the empty cell and numbers on both sides of the thresholds.
InitCells ==
    /\ table \in SeqsUpTo(CellRecords, MaxCellRows)
    /\ experiments \in SeqsUpTo(RequestNames, MaxArgs)
    /\ Started

(***************************************************************************)
(* main(), lines 51-61: the requested experiments must occur in the table. *)
(***************************************************************************)
available_experiments == Range(Column(table, "experiment_name"))

missing_experiments ==
    SelectSeq(experiments, LAMBDA exp : exp \notin available_experiments)

ReportMissing ==
    /\ pc = "check_experiments"
    /\ missing_experiments # <<>>
    /\ stdout' = stdout
         \o <<Line("Error: The following experiment configuration(s) were not found in the input file:", <<>>)>>
         \o [i \in DOMAIN missing_experiments |-> Line("  - ", <<missing_experiments[i]>>)]
         \o <<Line("Available experiment configurations in the input file:", <<>>)>>
         \o LET avail == sorted(available_experiments)
            IN [i \in DOMAIN avail |-> Line("  - ", <<avail[i]>>)]
    /\ exit_code' = {1}
    /\ pc' = "exit"
    /\ UNCHANGED <<table, experiments, df, domains, di, ei, problem_sets,
                   common_problems, aggregated_rows, agg_df, output, written>>

(***************************************************************************)
(* main(), lines 63-75: restrict to the requested experiments, list the    *)
(* domains.  ForDomain is the head of the loop of line 78.                 *)
(***************************************************************************)
ForDomain(doms, k) ==
    IF k > Len(doms)
    THEN /\ pc' = "build_agg_df"
         /\ UNCHANGED <<di, problem_sets>>
         /\ ei' = 0
    ELSE /\ di' = k
         /\ problem_sets' = <<>>
         /\ IF experiments = <<>>
            THEN pc' = "intersect" /\ ei' = 0
            ELSE pc' = "solved_sets" /\ ei' = 1

FilterRows ==
    /\ pc = "check_experiments"
    /\ missing_experiments = <<>>
    /\ df' = SelectSeq(table, LAMBDA r : r.experiment_name \in Range(experiments))
    /\ domains' = unique(Column(df', "domain_name"))
    /\ aggregated_rows' = <<>>
    /\ ForDomain(domains', 1)
    /\ UNCHANGED <<table, experiments, common_problems, agg_df, stdout, output,
                   written, exit_code>>

(***************************************************************************)
(* main(), lines 79-93: the solved problems of one experiment in the       *)
(* current domain.                                                         *)
(***************************************************************************)
domain == domains[di]

df_domain == SelectSeq(df, LAMBDA r : r.domain_name = domain)

\* Lines 85-88 and 107-109: the experiment's rows, both columns coerced.
df_exp(exp) ==
    LET rows == SelectSeq(df_domain, LAMBDA r : r.experiment_name = exp)
    IN [i \in DOMAIN rows |->
          [rows[i] EXCEPT !.solution_size = to_numeric(@),
                          !.expanded_nodes = to_numeric(@)]]

\* Mutant of solved: the two comparisons are joined by "or".
solved_either(r) == Gt(r.solution_size, 0) \/ Gt(r.expanded_nodes, 1)

\* The mask of lines 89 and 110 on a coerced row.
solved(r) == Gt(r.solution_size, 0) /\ Gt(r.expanded_nodes, 1)

solved_rows(exp) == SelectSeq(df_exp(exp), solved)

SolvedSetStep ==
    /\ pc = "solved_sets"
    /\ LET exp == experiments[ei]
           problems == Range(Column(solved_rows(exp), "problem_name"))
       IN /\ stdout' = stdout \o <<Line("", <<exp, domain>>), Line("", sorted(problems))>>
          /\ problem_sets' = Append(problem_sets, problems)
    /\ IF ei < Len(experiments)
       THEN ei' = ei + 1 /\ pc' = pc
       ELSE ei' = 0 /\ pc' = "intersect"
    /\ UNCHANGED <<table, experiments, df, domains, di, common_problems,
                   aggregated_rows, agg_df, output, written, exit_code>>

(***************************************************************************)
(* main(), lines 95-103: the intersection; an empty one skips the domain.  *)
(***************************************************************************)
common ==
    IF problem_sets # <<>> THEN intersection(problem_sets) ELSE {}

SkipDomain ==
    /\ pc = "intersect"
    /\ common = {}
    /\ common_problems' = common
    /\ ForDomain(domains, di + 1)
    /\ UNCHANGED <<table, experiments, df, domains, aggregated_rows, agg_df,
                   stdout, output, written, exit_code>>

Intersect ==
    /\ pc = "intersect"
    /\ common # {}
    /\ common_problems' = common
    /\ pc' = "aggregate"
    /\ ei' = 1
    /\ UNCHANGED <<table, experiments, df, domains, di, problem_sets,
                   aggregated_rows, agg_df, stdout, output, written, exit_code>>

(***************************************************************************)
(* main(), lines 106-135: one experiment's row of the current domain.      *)
(***************************************************************************)
avg_columns == <<"search_elapsed_time", "solution_size", "expanded_nodes">>

\* Mutant of df_exp_final: the solved rows are not restricted to the
\* intersection.
df_exp_final_solved(exp) == solved_rows(exp)

df_exp_final(exp) ==
    SelectSeq(solved_rows(exp), LAMBDA r : r.problem_name \in common_problems)

\* A column of a coerced frame as possibly-NaN rationals.
Values(rows, col) ==
    [i \in DOMAIN rows |->
        IF col = "search_elapsed_time" THEN AsRat({rows[i][col]}) ELSE AsRat(rows[i][col])]

\* Mutant of aggregated_data: problem_count counts the filtered rows.
aggregated_data_rows(exp) ==
    LET final == df_exp_final(exp)
    IN [domain_name |-> domain,
        experiment_name |-> exp,
        problem_count |-> Len(final),
        search_elapsed_time |-> mean(Values(final, "search_elapsed_time")),
        solution_size |-> mean(Values(final, "solution_size")),
        expanded_nodes |-> mean(Values(final, "expanded_nodes")),
        heuristic_name |-> ""]

aggregated_data(exp) ==
    LET final == df_exp_final(exp)
    IN [domain_name |-> domain,
        experiment_name |-> exp,
        problem_count |-> Cardinality(common_problems),
        search_elapsed_time |-> mean(Values(final, "search_elapsed_time")),
        solution_size |-> mean(Values(final, "solution_size")),
        expanded_nodes |-> mean(Values(final, "expanded_nodes")),
        heuristic_name |-> ""]

AggregateStep ==
    /\ pc = "aggregate"
    /\ LET exp == experiments[ei]
       IN aggregated_rows' =
            IF df_exp_final(exp) = <<>> THEN aggregated_rows
            ELSE Append(aggregated_rows, aggregated_data(exp))
    /\ IF ei < Len(experiments)
       THEN ei' = ei + 1 /\ UNCHANGED <<pc, di, problem_sets>>
       ELSE ForDomain(domains, di + 1)
    /\ UNCHANGED <<table, experiments, df, domains, common_problems, agg_df,
                   stdout, output, written, exit_code>>

(***************************************************************************)
(* main(), lines 137-153: the result table and its Total row.              *)
(***************************************************************************)
\* Mutant of EmptyExit: the empty result ends the run as a failure.
EmptyExit_failure ==
    /\ pc = "build_agg_df"
    /\ aggregated_rows = <<>>
    /\ agg_df' = <<>>
    /\ stdout' = Append(stdout,
         Line("No domains with common solved problems were found for the specified experiments.", <<>>))
    /\ exit_code' = {1}
    /\ pc' = "exit"
    /\ UNCHANGED <<table, experiments, df, domains, di, ei, problem_sets,
                   common_problems, aggregated_rows, output, written>>

EmptyExit ==
    /\ pc = "build_agg_df"
    /\ aggregated_rows = <<>>
    /\ agg_df' = <<>>
    /\ stdout' = Append(stdout,
         Line("No domains with common solved problems were found for the specified experiments.", <<>>))
    /\ exit_code' = {0}
    /\ pc' = "exit"
    /\ UNCHANGED <<table, experiments, df, domains, di, ei, problem_sets,
                   common_problems, aggregated_rows, output, written>>

RECURSIVE sum(_)
sum(vals) == IF vals = <<>> THEN 0 ELSE vals[1] + sum(Tail(vals))

\* Mutant of total_row: problem_count adds one summand per domain.
total_row_domains(rows) ==
    LET perDomain == unique(Column(rows, "domain_name"))
    IN [domain_name |-> "Total",
        experiment_name |-> "",
        problem_count |->
           sum([k \in DOMAIN perDomain |->
                  (CHOOSE r \in Range(rows) : r.domain_name = perDomain[k]).problem_count]),
        search_elapsed_time |-> mean(Column(rows, "search_elapsed_time")),
        solution_size |-> mean(Column(rows, "solution_size")),
        expanded_nodes |-> mean(Column(rows, "expanded_nodes")),
        heuristic_name |-> ""]

\* Mutant of total_row: the averages weigh each row by its problem_count.
total_row_weighted(rows) ==
    LET weighted(col) ==
           LET parts == [i \in DOMAIN rows |->
                           LET m == CHOOSE r \in rows[i][col] : TRUE
                           IN Rat(m.num * rows[i].problem_count, m.den)]
               total == RatSum(parts)
           IN { Rat(total.num, total.den * sum(Column(rows, "problem_count"))) }
    IN [domain_name |-> "Total",
        experiment_name |-> "",
        problem_count |-> sum(Column(rows, "problem_count")),
        search_elapsed_time |-> weighted("search_elapsed_time"),
        solution_size |-> weighted("solution_size"),
        expanded_nodes |-> weighted("expanded_nodes"),
        heuristic_name |-> ""]

total_row(rows) ==
    [domain_name |-> "Total",
     experiment_name |-> "",
     problem_count |-> sum(Column(rows, "problem_count")),
     search_elapsed_time |-> mean(Column(rows, "search_elapsed_time")),
     solution_size |-> mean(Column(rows, "solution_size")),
     expanded_nodes |-> mean(Column(rows, "expanded_nodes")),
     heuristic_name |-> ""]

TotalRow ==
    /\ pc = "build_agg_df"
    /\ aggregated_rows # <<>>
    /\ agg_df' = Append(aggregated_rows, total_row(aggregated_rows))
    /\ pc' = "write"
    /\ UNCHANGED <<table, experiments, df, domains, di, ei, problem_sets,
                   common_problems, aggregated_rows, stdout, output, written,
                   exit_code>>

(***************************************************************************)
(* main(), lines 155-160: to_csv with float_format="%.2f".  A formatted    *)
(* float is its number of hundredths; NaN is written as the empty field.   *)
(***************************************************************************)
Format2(x) == { (200 * r.num + r.den) \div (2 * r.den) : r \in x }

to_csv(rows) ==
    [i \in DOMAIN rows |->
        [rows[i] EXCEPT !.search_elapsed_time = Format2(@),
                        !.solution_size = Format2(@),
                        !.expanded_nodes = Format2(@)]]

WriteOutput ==
    /\ pc = "write"
    /\ output' = to_csv(agg_df)
    /\ written' = TRUE
    /\ stdout' = Append(stdout, Line("Aggregated results written to ", <<>>))
    /\ exit_code' = {0}
    /\ pc' = "exit"
    /\ UNCHANGED <<table, experiments, df, domains, di, ei, problem_sets,
                   common_problems, aggregated_rows, agg_df>>

\* to_csv raises (the path cannot be written): the error is printed and the
\* process still ends normally.
WriteFails ==
    /\ pc = "write"
    /\ stdout' = Append(stdout, Line("Error writing output file: ", <<>>))
    /\ exit_code' = {0}
    /\ pc' = "exit"
    /\ UNCHANGED <<table, experiments, df, domains, di, ei, problem_sets,
                   common_problems, aggregated_rows, agg_df, output, written>>

Next ==
    \/ ReportMissing
    \/ FilterRows
    \/ SolvedSetStep
    \/ SkipDomain
    \/ Intersect
    \/ AggregateStep
    \/ EmptyExit
    \/ TotalRow
    \/ WriteOutput
    \/ WriteFails

Spec == Init /\ [][Next]_vars

SpecCells == InitCells /\ [][Next]_vars

(***************************************************************************)
(* Vocabulary of the properties, stated on the inputs alone: the table as  *)
(* read and a list exps of requested names.                                *)
(***************************************************************************)
\* The number a cell of the model's tables stands for; NaN for text and for
\* the empty cell.
CellNumber(cell) ==
    CASE cell = <<"0">> -> {0}
      [] cell = <<"1">> -> {1}
      [] cell = <<"2">> -> {2}
      [] cell = <<"3">> -> {3}
      [] cell = <<"4">> -> {4}
      [] cell = <<"1", "0">> -> {10}
      [] cell = <<"-", "1">> -> {0 - 1}
      [] OTHER -> {}

IsSolvedRecord(r) ==
    /\ CellNumber(r.solution_size) # {}
    /\ CellNumber(r.expanded_nodes) # {}
    /\ \A s \in CellNumber(r.solution_size) : s > 0
    /\ \A n \in CellNumber(r.expanded_nodes) : n > 1

RestrictedIdx(exps) ==
    { i \in DOMAIN table : \E k \in DOMAIN exps : table[i].experiment_name = exps[k] }

RestrictedDomains(exps) == { table[i].domain_name : i \in RestrictedIdx(exps) }

SolvedIdx(d, e) ==
    { i \in DOMAIN table : /\ table[i].domain_name = d
                           /\ table[i].experiment_name = e
                           /\ IsSolvedRecord(table[i]) }

SolvedSet(d, e) == { table[i].problem_name : i \in SolvedIdx(d, e) }

CommonSolvedSet(d, exps) ==
    { p \in { table[i].problem_name : i \in DOMAIN table } :
        /\ exps # <<>>
        /\ \A k \in DOMAIN exps : p \in SolvedSet(d, exps[k]) }

\* The records of experiment e that count for domain d's row of e.
ContributingIdx(d, e, exps) ==
    { i \in SolvedIdx(d, e) : table[i].problem_name \in CommonSolvedSet(d, exps) }

NoneMissing ==
    \A k \in DOMAIN experiments :
        \E i \in DOMAIN table : table[i].experiment_name = experiments[k]

\* The loop over the domains has just ended: aggregated_rows is complete, and
\* no later step changes it.
LoopDone == pc = "build_agg_df"

\* main() is at a statement that can be executed: either branch of a test,
\* or the body of an inner loop with its experiment and domain at hand.
CanStep ==
    \/ pc \in {"check_experiments", "intersect", "build_agg_df", "write"}
    \/ /\ pc \in {"solved_sets", "aggregate"}
       /\ ei \in DOMAIN experiments
       /\ di \in DOMAIN domains

(***************************************************************************)
(* C1: every emitted domain row (every row but the Total row) carries as    *)
(* problem_count the number of distinct problem names in the intersection, *)
(* over the requested experiments, of its domain's solved-problem sets.    *)
(***************************************************************************)
C1_ProblemCountIsCommonSetSize ==
    /\ LoopDone =>
          \A i \in DOMAIN aggregated_rows :
             aggregated_rows[i].problem_count =
                Cardinality(CommonSolvedSet(aggregated_rows[i].domain_name, experiments))
    /\ written =>
          \A i \in 1..(Len(output) - 1) :
             output[i].problem_count =
                Cardinality(CommonSolvedSet(output[i].domain_name, experiments))

\* A written row of a domain whose intersection (one problem) is smaller than
\* the two problems one requested experiment solves there.
C1_Witness ==
    /\ written
    /\ \E i \in 1..(Len(output) - 1) :
          /\ output[i].problem_count = 1
          /\ \E k \in DOMAIN experiments :
                Cardinality(SolvedSet(output[i].domain_name, experiments[k])) = 2

(***************************************************************************)
(* C2: once every domain is processed, a domain of the restricted table    *)
(* has no aggregated row exactly when its common solved set is empty.      *)
(***************************************************************************)
C2_NoRowIffCommonSetEmpty ==
    LoopDone =>
       \A d \in RestrictedDomains(experiments) :
          (\A i \in DOMAIN aggregated_rows : aggregated_rows[i].domain_name # d)
             <=> (CommonSolvedSet(d, experiments) = {})

\* One domain is emitted, another is not although one requested experiment
\* solves a problem of it (and another requested experiment solves none).
C2_Witness ==
    /\ LoopDone
    /\ aggregated_rows # <<>>
    /\ \E d \in RestrictedDomains(experiments) :
          /\ \A i \in DOMAIN aggregated_rows : aggregated_rows[i].domain_name # d
          /\ \E k \in DOMAIN experiments : SolvedSet(d, experiments[k]) # {}
          /\ \E k \in DOMAIN experiments : SolvedSet(d, experiments[k]) = {}

(***************************************************************************)
(* C3: each averaged metric of the row of (domain, experiment) is the mean *)
(* over exactly the records of that experiment in that domain that are     *)
(* solved and whose problem is in the domain's common solved set.          *)
(***************************************************************************)
\* The number in column col of record i of the table.
RecordNumber(i, col) ==
    IF col = "search_elapsed_time" THEN table[i][col]
    ELSE CHOOSE v \in CellNumber(table[i][col]) : TRUE

RECURSIVE SumOver(_, _)
SumOver(S, col) ==
    IF S = {} THEN 0
    ELSE LET i == CHOOSE j \in S : TRUE
         IN RecordNumber(i, col) + SumOver(S \ {i}, col)

\* x is the number total / n (and not NaN).
IsQuotient(x, total, n) ==
    /\ n > 0
    /\ x # {}
    /\ \A m \in x : m.den > 0 /\ m.num * n = total * m.den

C3_MeansOverCommonSolvedRecords ==
    LoopDone =>
       \A i \in DOMAIN aggregated_rows :
          LET row == aggregated_rows[i]
              C == ContributingIdx(row.domain_name, row.experiment_name, experiments)
          IN \A c \in DOMAIN avg_columns :
                IsQuotient(row[avg_columns[c]], SumOver(C, avg_columns[c]), Cardinality(C))

\* A written row of an experiment that solves, in the row's domain, a problem
\* outside the common solved set.
C3_Witness ==
    /\ LoopDone
    /\ \E i \in DOMAIN aggregated_rows :
          LET row == aggregated_rows[i]
          IN ContributingIdx(row.domain_name, row.experiment_name, experiments)
                # SolvedIdx(row.domain_name, row.experiment_name)

(***************************************************************************)
(* C4: when a requested name does not occur in the table's experiment_name *)
(* column, the run ends with exit code 1 before any per-domain step and    *)
(* without an output table, and it has printed every missing requested     *)
(* name and, in sorted order, every available name.                        *)
(***************************************************************************)
Rank(n) == CHOOSE i \in DOMAIN Lexicographic : Lexicographic[i] = n

\* The index in stdout of the line that heads the available names.
AvailableHeader ==
    CHOOSE h \in DOMAIN stdout :
        stdout[h].text = "Available experiment configurations in the input file:"

C4_MissingExperimentEndsRun ==
    ~NoneMissing =>
       /\ pc \in {"check_experiments", "exit"}
       /\ df = <<>> /\ domains = <<>> /\ di = 0
       /\ problem_sets = <<>> /\ aggregated_rows = <<>> /\ agg_df = <<>>
       /\ ~written /\ output = <<>>
       /\ pc = "exit" =>
             /\ exit_code = {1}
             /\ LET h == AvailableHeader
                    n == Len(stdout)
                IN /\ { stdout[j].names[1] : j \in 2..(h - 1) }
                         = { experiments[k] : k \in { k \in DOMAIN experiments :
                               \A i \in DOMAIN table :
                                  table[i].experiment_name # experiments[k] } }
                   /\ { stdout[j].names[1] : j \in (h + 1)..n }
                         = { table[i].experiment_name : i \in DOMAIN table }
                   /\ \A j \in (h + 1)..(n - 1) :
                         Rank(stdout[j].names[1]) < Rank(stdout[j + 1].names[1])

\* The run ended on two different missing names.
C4_Witness ==
    /\ pc = "exit"
    /\ exit_code = {1}
    /\ table # <<>>
    /\ Len(experiments) = 2
    /\ experiments[1] # experiments[2]
    /\ \A k \in DOMAIN experiments :
          \A i \in DOMAIN table : table[i].experiment_name # experiments[k]

(***************************************************************************)
(* C5: a written output is the domain rows followed by exactly one Total   *)
(* row, the last one; the domain rows are grouped by domain in the order   *)
(* in which the domains first occur in the restricted table, and a         *)
(* domain's rows are the requested experiments with at least one           *)
(* contributing record, in the order of the request.                       *)
(***************************************************************************)
\* The first row of the restricted table that belongs to domain d.
FirstIdx(d) ==
    CHOOSE i \in RestrictedIdx(experiments) :
        /\ table[i].domain_name = d
        /\ \A j \in RestrictedIdx(experiments) : j < i => table[j].domain_name # d

Contributes(d, e) == ContributingIdx(d, e, experiments) # {}

RECURSIVE CountOfFirst(_, _)
CountOfFirst(rows, k) ==
    IF k = 0 THEN 0 ELSE rows[k].problem_count + CountOfFirst(rows, k - 1)

C6_TotalProblemCount ==
    /\ pc = "write" =>
          agg_df[Len(agg_df)].problem_count = CountOfFirst(agg_df, Len(agg_df) - 1)
    /\ written =>
          output[Len(output)].problem_count = CountOfFirst(output, Len(output) - 1)

\* A written output with two rows of one domain: the Total counts the
\* domain's common solved set twice.
C6_Witness ==
    /\ written
    /\ Len(output) = 3
    /\ output[1].domain_name = output[2].domain_name
    /\ output[1].experiment_name # output[2].experiment_name
    /\ output[3].problem_count = 2 * Cardinality(CommonSolvedSet(output[1].domain_name, experiments))

(***************************************************************************)
(* C7: each averaged column of the Total row is the unweighted mean of the *)
(* column's values over the emitted domain rows: a mean of the rows'       *)
(* means, not the mean of the underlying records.                          *)
(***************************************************************************)
Only(x) == CHOOSE m \in x : TRUE

\* Over the first k rows: the product of the denominators of column col, and
\* the sum of the column's values times that product.
RECURSIVE DenProduct(_, _, _)
DenProduct(rows, col, k) ==
    IF k = 0 THEN 1 ELSE Only(rows[k][col]).den * DenProduct(rows, col, k - 1)

RECURSIVE ScaledSum(_, _, _)
ScaledSum(rows, col, k) ==
    IF k = 0 THEN 0
    ELSE ScaledSum(rows, col, k - 1) * Only(rows[k][col]).den
            + Only(rows[k][col]).num * DenProduct(rows, col, k - 1)

C7_TotalIsMeanOfRowMeans ==
    pc = "write" =>
       LET n == Len(agg_df) - 1
       IN \A c \in DOMAIN avg_columns :
             LET col == avg_columns[c]
                 t == agg_df[n + 1][col]
             IN /\ \A i \in 1..n : agg_df[i][col] # {}
                /\ t # {}
                /\ Only(t).den > 0
                /\ Only(t).num * n * DenProduct(agg_df, col, n)
                      = ScaledSum(agg_df, col, n) * Only(t).den

\* The contributing records of the first k rows: how many, and their sum in
\* column col.
RECURSIVE RecordsOfFirst(_, _)
RecordsOfFirst(rows, k) ==
    IF k = 0 THEN 0
    ELSE Cardinality(ContributingIdx(rows[k].domain_name, rows[k].experiment_name, experiments))
            + RecordsOfFirst(rows, k - 1)

RECURSIVE RecordSumOfFirst(_, _, _)
RecordSumOfFirst(rows, col, k) ==
    IF k = 0 THEN 0
    ELSE SumOver(ContributingIdx(rows[k].domain_name, rows[k].experiment_name, experiments), col)
            + RecordSumOfFirst(rows, col, k - 1)

\* A result table whose Total solution_size differs from the mean of
\* solution_size over all contributing records.
C7_Witness ==
    /\ pc = "exit"
    /\ written
    /\ LET n == Len(agg_df) - 1
       IN ~IsQuotient(agg_df[n + 1].solution_size,
                      RecordSumOfFirst(agg_df, "solution_size", n),
                      RecordsOfFirst(agg_df, n))

(***************************************************************************)
(* C8: when no domain of the restricted table has a common solved problem  *)
(* (in particular when no experiment is requested), the run goes on to end *)
(* with exit code 0, no Total row is computed and no output is written.    *)
(***************************************************************************)
NoCommonProblem ==
    /\ NoneMissing
    /\ \A d \in RestrictedDomains(experiments) : CommonSolvedSet(d, experiments) = {}

C8_EmptyResultExitsZero ==
    LET asClaimed ==
           /\ pc # "write"
           /\ agg_df = <<>>
           /\ ~written /\ output = <<>>
           /\ pc # "exit" => CanStep
           /\ pc = "exit" => exit_code = {0}
    IN ~asClaimed => ~NoCommonProblem

\* The run ended on an empty result although both requested experiments
\* solve problems.
C8_Witness ==
    /\ pc = "exit"
    /\ NoCommonProblem
    /\ Len(experiments) = 2
    /\ \A k \in DOMAIN experiments :
          \E d \in RestrictedDomains(experiments) : SolvedSet(d, experiments[k]) # {}

(***************************************************************************)
(* C9: a record is in its experiment's solved set exactly when both cells  *)
(* are numbers with solution_size > 0 and expanded_nodes > 1; a cell that  *)
(* is no number keeps the record out whatever the other cell holds, and    *)
(* the run goes on to its normal end.                                      *)
(***************************************************************************)
C9_SolvedIffBothComparisonsHold ==
    /\ di \in DOMAIN domains =>
          \A k \in DOMAIN problem_sets :
             problem_sets[k] = SolvedSet(domains[di], experiments[k])
    /\ LoopDone =>
          \A i \in DOMAIN aggregated_rows :
             ContributingIdx(aggregated_rows[i].domain_name,
                             aggregated_rows[i].experiment_name, experiments) # {}
    /\ NoneMissing =>
          /\ pc # "exit" => CanStep
          /\ pc = "exit" => exit_code = {0}

\* The first record's solution_size is text and its expanded_nodes is 10; the
\* run wrote the row of the second record alone (solution_size 2.00).
C9_Witness ==
    /\ written
    /\ Len(table) = 2
    /\ table[1].solution_size = <<"a", "b", "c">>
    /\ table[1].expanded_nodes = <<"1", "0">>
    /\ output[1].problem_count = 1
    /\ output[1].solution_size = {200}
    /\ exit_code = {0}

(***************************************************************************)
(* The result table as a function of the table and of a list exps of       *)
(* requested names that all occur in the table.                            *)
(***************************************************************************)
\* The domains of the first n rows of the table restricted to exps, in order
\* of first occurrence.
RECURSIVE DomainsUpTo(_, _)
DomainsUpTo(exps, n) ==
    IF n = 0 THEN <<>>
    ELSE LET front == DomainsUpTo(exps, n - 1)
             d == table[n].domain_name
         IN IF n \in RestrictedIdx(exps) /\ \A j \in DOMAIN front : front[j] # d
            THEN Append(front, d)
            ELSE front

MeanOver(C, col) == { Rat(SumOver(C, col), Cardinality(C)) }

DomainRow(d, e, exps) ==
    LET C == ContributingIdx(d, e, exps)
    IN [domain_name |-> d,
        experiment_name |-> e,
        problem_count |-> Cardinality(CommonSolvedSet(d, exps)),
        search_elapsed_time |-> MeanOver(C, "search_elapsed_time"),
        solution_size |-> MeanOver(C, "solution_size"),
        expanded_nodes |-> MeanOver(C, "expanded_nodes"),
        heuristic_name |-> ""]

\* The rows of domain d: one per entry of exps with a contributing record.
RowsOfDomain(d, exps) ==
    LET entries == SelectSeq(exps, LAMBDA e : ContributingIdx(d, e, exps) # {})
    IN [k \in DOMAIN entries |-> DomainRow(d, entries[k], exps)]

RECURSIVE RowsOfDomains(_, _)
RowsOfDomains(ds, exps) ==
    IF ds = <<>> THEN <<>>
    ELSE RowsOfDomain(ds[1], exps) \o RowsOfDomains(Tail(ds), exps)

MeanOfRows(rows, col) ==
    LET n == Len(rows)
    IN { Rat(ScaledSum(rows, col, n), n * DenProduct(rows, col, n)) }

ResultTable(exps) ==
    LET rows == RowsOfDomains(DomainsUpTo(exps, Len(table)), exps)
    IN IF rows = <<>> THEN <<>>
       ELSE Append(rows,
              [domain_name |-> "Total",
               experiment_name |-> "",
               problem_count |-> CountOfFirst(rows, Len(rows)),
               search_elapsed_time |-> MeanOfRows(rows, "search_elapsed_time"),
               solution_size |-> MeanOfRows(rows, "solution_size"),
               expanded_nodes |-> MeanOfRows(rows, "expanded_nodes"),
               heuristic_name |-> ""])

Finished == pc = "exit" /\ NoneMissing

\* The run computes ResultTable of its request.
ResultTableIsComputed == Finished => agg_df = ResultTable(experiments)

(***************************************************************************)
(* C10: a request that repeats a name yields the result table (the domain  *)
(* rows and the Total row) of the request with the repetition removed.     *)
(***************************************************************************)
\* The list without the later occurrences of a name.
RECURSIVE WithoutRepeats(_)
WithoutRepeats(exps) ==
    IF exps = <<>> THEN <<>>
    ELSE LET front == WithoutRepeats(SubSeq(exps, 1, Len(exps) - 1))
             e == exps[Len(exps)]
         IN IF \E k \in DOMAIN front : front[k] = e THEN front ELSE Append(front, e)

C10_RepeatedNamesAreRedundant ==
    Finished => agg_df = ResultTable(WithoutRepeats(experiments))

====
